---- MODULE Spec2Model ----
(***************************************************************************)
(* Lifecycle of the Context tree of src/src/context.js: the state machine  *)
(* Active -> Ending -> Ended, the parent/children tree, the observer list  *)
(* and the notifications end() sends.                                      *)
(*                                                                         *)
(* JavaScript is single threaded but end() calls observers synchronously,  *)
(* and an observer may call back into any context.  The model therefore    *)
(* keeps the call stack explicitly: one frame per running method, with its *)
(* local variables and its position.  An API call is possible when the     *)
(* stack is empty (a top-level call) or when the running frame is an       *)
(* observer callback (a re-entrant call).  An observer that calls a method *)
(* that throws catches the error: the exception of the last call is kept   *)
(* in lastCall.raised.                                                     *)
(*                                                                         *)
(* The callback dispatch of handleCallback() and handleAxis() is the second *)
(* part: it runs to completion inside one call (handlers are taken as      *)
(* opaque: a context's own handlers handle the callback or they do not),   *)
(* so each dispatch is one action, computed by operators that thread the   *)
(* pending axis tags and the list of consulted contexts through the calls. *)
(***************************************************************************)
EXTENDS Naturals, Sequences, FiniteSets, Bags

\* Bounds of the model.
MaxCtx      == 3   \* contexts ever created, the root included
NumObs      == 2   \* distinct observer objects
MaxSubs     == 2   \* length of one context's observer array
MaxCalls    == 5   \* API calls of one run, top-level and re-entrant
MaxReentry  == 1   \* of these, calls made from inside observer callbacks
\* The same two for the deeper runs of SpecDeep.
MaxCallsDeep   == 6
MaxReentryDeep == 2
\* Contexts of the trees the dispatch runs on.
MaxNodes == 4

VARIABLES
    state,      \* state[c]     : _state of context c
    parent,     \* parent[c]    : _parent of context c, 0 for the root
    children,   \* children[c]  : _children of context c, in array order
    observers,  \* observers[c] : _observers of context c, Null when nullish
    subs,       \* the bag of the unsubscribe closures observe() has returned
    stack,      \* the call stack, innermost frame last
    log,        \* the notifications delivered so far, in order
    gone,       \* unsubscriptions that left the observer without subscription
    callsLeft,      \* API calls the run may still make
    reentriesLeft,  \* of these, calls from inside a callback
    lastCall,   \* the most recent API call and what it raised
    Axis,       \* <<c, a>> : this[Axis] of context c is the axis a
    handlers,   \* the contexts whose own handlers handle the callback
    dispatch    \* the most recent dispatch and what it did

vars == <<state, parent, children, observers, subs, stack, log, gone,
          callsLeft, reentriesLeft, lastCall, Axis, handlers, dispatch>>

Observers == 1 .. NumObs
Contexts  == 1 .. Len(state)

\* _observers is undefined before the first observe() and null after end().
Null == <<0>>

\* ContextState
Active == "Active"
Ending == "Ending"
Ended  == "Ended"

----------------------------------------------------------------------------
\* Array helpers, 1-based; 0 is JavaScript's -1 of indexOf.

RECURSIVE IndexFrom(_, _, _)
IndexFrom(s, x, i) ==
    IF i > Len(s) THEN 0
    ELSE IF s[i] = x THEN i
    ELSE IndexFrom(s, x, i + 1)

IndexOf(s, x) == IndexFrom(s, x, 1)

\* s.splice(i, 1): removes the element at position i, nothing past the end.
Splice(s, i) ==
    IF i >= 1 /\ i <= Len(s)
    THEN SubSeq(s, 1, i - 1) \o SubSeq(s, i + 1, Len(s))
    ELSE s

Range(s) == { s[i] : i \in 1 .. Len(s) }

\* How many times x occurs in s.
CountOf(s, x) == Cardinality({ i \in 1 .. Len(s) : s[i] = x })

\* The array s without the element x.
Without(s, x) == LET Keep(e) == e # x IN SelectSeq(s, Keep)

RECURSIVE Reverse(_)
Reverse(s) == IF s = <<>> THEN <<>> ELSE Append(Reverse(Tail(s)), Head(s))

NoDispatch == [op |-> "none", ctx |-> 0, axis |-> "none", greedy |-> FALSE,
               consulted |-> <<>>, handled |-> FALSE, raised |-> "none"]

NoFrame == [op |-> "none", ctx |-> 0, pc |-> "", idx |-> 0, snap |-> <<>>,
            at |-> 0, i |-> 0, kids |-> <<>>, was |-> ""]

Top == IF stack = <<>> THEN NoFrame ELSE stack[Len(stack)]
Below == IF stack = <<>> THEN <<>> ELSE SubSeq(stack, 1, Len(stack) - 1)

\* makeNotifier(): the observers of c copied, none when _observers is nullish.
makeNotifier(c) == IF observers[c] = Null THEN <<>> ELSE observers[c]

\* Mutant: only an Ended context is refused.
ensureNotEnded(c) == state[c] # Ended

\* ensureActive(): TRUE when it does not throw.
ensureActive(c) == state[c] = Active

\* Mutant: the base end() without its guard.
EndGuardMissing(c) == TRUE

\* The guard of the base end(): if (_state == ContextState.Active).
EndGuard(c) == state[c] = Active

RECURSIVE RootOf(_)
RootOf(c) == IF parent[c] = 0 THEN c ELSE RootOf(parent[c])

----------------------------------------------------------------------------
\* A root context just constructed: new Context().
InitTree ==
    /\ state     = <<Active>>
    /\ parent    = <<0>>
    /\ children  = << <<>> >>
    /\ observers = <<Null>>
    /\ subs      = EmptyBag
    /\ stack     = <<>>
    /\ log       = <<>>
    /\ gone      = {}
    /\ lastCall  = [op |-> "none", ctx |-> 0, obs |-> 0, raised |-> "none",
                    depth |-> 0]
    /\ Axis      = {}
    /\ handlers  = {}
    /\ dispatch  = NoDispatch

Init ==
    /\ InitTree
    /\ callsLeft     = MaxCalls
    /\ reentriesLeft = MaxReentry

InitDeep ==
    /\ InitTree
    /\ callsLeft     = MaxCallsDeep
    /\ reentriesLeft = MaxReentryDeep

\* An API call can be made from the top level or from an observer callback.
CanCall ==
    /\ callsLeft > 0
    /\ \/ stack = <<>>
       \/ Top.op = "cb" /\ reentriesLeft > 0

Called(op, c, o, err) ==
    /\ callsLeft' = callsLeft - 1
    /\ reentriesLeft' = IF stack = <<>> THEN reentriesLeft
                                        ELSE reentriesLeft - 1
    /\ lastCall' = [op |-> op, ctx |-> c, obs |-> o, raised |-> err,
                    depth |-> Len(stack)]

\* Mutant: unshift() for push(), the element goes first.
unshift(s, x) == <<x>> \o s

\* Array push(): the element goes last.
push(s, x) == Append(s, x)

\* newChild()
NewChild(p) ==
    /\ CanCall
    /\ IF ensureActive(p)
       THEN /\ Len(state) < MaxCtx
            /\ state'     = Append(state, Active)
            /\ parent'    = Append(parent, p)
            /\ children'  = Append([children EXCEPT ![p] =
                                       push(@, Len(state) + 1)], <<>>)
            /\ observers' = Append(observers, Null)
            /\ Called("newChild", p, 0, "none")
       ELSE /\ Called("newChild", p, 0, "Error")
            /\ UNCHANGED <<state, parent, children, observers>>
    /\ UNCHANGED <<subs, stack, log, gone>>
    /\ UNCHANGED <<Axis, handlers, dispatch>>

\* The closure observe(o) on c returns; called tells whether it has been run.
Closure(c, o) == [ctx |-> c, obs |-> o, called |-> FALSE]

\* observe(observer); observer 0 is null or undefined ($isNothing).
Observe(c, o) ==
    /\ CanCall
    /\ IF ~ensureActive(c)
       THEN /\ Called("observe", c, o, "Error")
            /\ UNCHANGED <<observers, subs, gone>>
       ELSE IF o = 0
       THEN /\ Called("observe", c, o, "none")
            /\ UNCHANGED <<observers, subs, gone>>
       ELSE /\ Len(makeNotifier(c)) < MaxSubs
            /\ observers' = [observers EXCEPT ![c] = Append(makeNotifier(c), o)]
            /\ subs' = subs (+) SetToBag({Closure(c, o)})
            /\ gone' = { g \in gone : ~(g.ctx = c /\ g.obs = o) }
            /\ Called("observe", c, o, "none")
    /\ UNCHANGED <<state, parent, children, stack, log>>
    /\ UNCHANGED <<Axis, handlers, dispatch>>

----------------------------------------------------------------------------
\* Frames of the call stack.

\* The child's end() override, after it found itself at idx in the parent's
\* children and took the parent's notifier.
ChildEndFrame(c, idx) ==
    [NoFrame EXCEPT !.op = "childEnd", !.ctx = c, !.pc = "childEnding",
                    !.idx = idx, !.snap = makeNotifier(parent[c]),
                    !.at = Len(log), !.i = 1, !.was = state[c]]

\* The base end(), after it took the notifier and set the state to Ending.
EndFrame(c) ==
    [NoFrame EXCEPT !.op = "end", !.ctx = c, !.pc = "ending",
                    !.snap = makeNotifier(c), !.at = Len(log), !.i = 1,
                    !.was = state[c]]

\* unwind(): iterates this.children, a copy of _children.
UnwindFrame(c) ==
    [NoFrame EXCEPT !.op = "unwind", !.ctx = c, !.pc = "unwind",
                    !.kids = children[c], !.i = 1, !.was = state[c]]

\* An observer's method running: kind(c) called on observer o.
CallbackFrame(kind, c, o) ==
    [NoFrame EXCEPT !.op = "cb", !.ctx = c, !.pc = kind, !.idx = o]

\* The base end() called with the frames stk beneath it: a no-op unless Active.
BaseEnd(c, stk) ==
    IF EndGuard(c)
    THEN /\ state' = [state EXCEPT ![c] = Ending]
         /\ stack' = Append(stk, EndFrame(c))
    ELSE /\ state' = state
         /\ stack' = stk

\* The index the child's end() override works with.
ChildIndex(c) == IndexOf(children[parent[c]], c)

\* The end() override newChild() gives a child: returns when the child is not
\* among the parent's children.
ChildEnd(c, stk) ==
    /\ state' = state
    /\ IF ChildIndex(c) = 0
       THEN stack' = stk
       ELSE stack' = Append(stk, ChildEndFrame(c, ChildIndex(c)))

\* c.end(): the override for a context made by newChild(), the base for a root.
InvokeEnd(c, stk) ==
    IF parent[c] = 0 THEN BaseEnd(c, stk) ELSE ChildEnd(c, stk)

----------------------------------------------------------------------------
\* API calls that run end().

\* end()
End(c) ==
    /\ CanCall
    /\ InvokeEnd(c, stack)
    /\ Called("end", c, 0, "none")
    /\ UNCHANGED <<parent, children, observers, subs, log, gone>>
    /\ UNCHANGED <<Axis, handlers, dispatch>>

\* dispose() { this.end(); }
Dispose(c) ==
    /\ CanCall
    /\ InvokeEnd(c, stack)
    /\ Called("dispose", c, 0, "none")
    /\ UNCHANGED <<parent, children, observers, subs, log, gone>>
    /\ UNCHANGED <<Axis, handlers, dispatch>>

\* unwind()
Unwind(c) ==
    /\ CanCall
    /\ stack' = Append(stack, UnwindFrame(c))
    /\ Called("unwind", c, 0, "none")
    /\ UNCHANGED <<state, parent, children, observers, subs, log, gone>>
    /\ UNCHANGED <<Axis, handlers, dispatch>>

\* unwindToRootContext(): walks the parent links, then unwinds the root.
UnwindToRootContext(c) ==
    /\ CanCall
    /\ stack' = Append(stack, [UnwindFrame(RootOf(c)) EXCEPT
                                  !.pc = "unwindToRootContext"])
    /\ Called("unwindToRootContext", c, 0, "none")
    /\ UNCHANGED <<state, parent, children, observers, subs, log, gone>>
    /\ UNCHANGED <<Axis, handlers, dispatch>>

\* Mutant: slice() for splice(), the array is left as it was.
UnsubscribedSlice(c, o) == observers[c]

\* The observer array after the closure observe(o) returned has run.
Unsubscribed(c, o) == Splice(observers[c], IndexOf(observers[c], o))

\* The function observe(o) returned: _observers.indexOf throws on null.
Unsubscribe(c, o) ==
    /\ CanCall
    /\ \E f \in BagToSet(subs) :
          /\ f.ctx = c /\ f.obs = o
          /\ subs' = (subs (-) SetToBag({f}))
                         (+) SetToBag({[f EXCEPT !.called = TRUE]})
    /\ IF observers[c] = Null
       THEN /\ Called("unsubscribe", c, o, "TypeError")
            /\ UNCHANGED <<observers, gone>>
       ELSE /\ observers' = [observers EXCEPT ![c] = Unsubscribed(c, o)]
            /\ gone' = IF \/ CountOf(observers[c], o) > 1
                          \/ \E g \in gone : g.ctx = c /\ g.obs = o
                       THEN gone
                       ELSE gone \cup {[ctx |-> c, obs |-> o, at |-> Len(log)]}
            /\ Called("unsubscribe", c, o, "none")
    /\ UNCHANGED <<state, parent, children, stack, log>>
    /\ UNCHANGED <<Axis, handlers, dispatch>>

----------------------------------------------------------------------------
\* Steps of the running frame.

Notifying(f) ==
    /\ f.op \in {"childEnd", "end"}
    /\ f.pc \in {"childEnding", "childEnded", "ending", "ended"}
    /\ f.i <= Len(f.snap)

\* The ContextObserver method a frame's notifier is calling.
KindOf(f) ==
    CASE f.pc = "childEnding" -> "childContextEnding"
      [] f.pc = "childEnded"  -> "childContextEnded"
      [] f.pc = "ending"      -> "contextEnding"
      [] f.pc = "ended"       -> "contextEnded"

\* The context whose observers a frame's notifier holds.
SourceOf(f) == IF f.op = "childEnd" THEN parent[f.ctx] ELSE f.ctx

\* notifier.<kind>(context): the next observer of the snapshot is called.
Notify ==
    /\ Notifying(Top)
    /\ log' = Append(log, [kind |-> KindOf(Top), ctx |-> Top.ctx,
                           obs |-> Top.snap[Top.i], src |-> SourceOf(Top),
                           at |-> Top.at, was |-> Top.was])
    /\ stack' = Below \o << [Top EXCEPT !.i = @ + 1],
                            CallbackFrame(KindOf(Top), Top.ctx, Top.snap[Top.i]) >>
    /\ UNCHANGED <<state, parent, children, observers, subs, gone,
                   callsLeft, reentriesLeft, lastCall>>
    /\ UNCHANGED <<Axis, handlers, dispatch>>

\* The observer's method returns.
CallbackReturn ==
    /\ Top.op = "cb"
    /\ stack' = Below
    /\ UNCHANGED <<state, parent, children, observers, subs, log, gone,
                   callsLeft, reentriesLeft, lastCall>>
    /\ UNCHANGED <<Axis, handlers, dispatch>>

\* Child override, after childContextEnding: _children.splice(index, 1);
\* this.base();
ChildSplice ==
    /\ Top.op = "childEnd" /\ Top.pc = "childEnding" /\ Top.i > Len(Top.snap)
    /\ children' = [children EXCEPT ![parent[Top.ctx]] = Splice(@, Top.idx)]
    /\ BaseEnd(Top.ctx, Below \o << [Top EXCEPT !.pc = "childEnded", !.i = 1] >>)
    /\ UNCHANGED <<parent, observers, subs, log, gone, callsLeft, reentriesLeft, lastCall>>
    /\ UNCHANGED <<Axis, handlers, dispatch>>

\* Child override, after childContextEnded: the call returns.
ChildEndReturn ==
    /\ Top.op = "childEnd" /\ Top.pc = "childEnded" /\ Top.i > Len(Top.snap)
    /\ stack' = Below
    /\ UNCHANGED <<state, parent, children, observers, subs, log, gone,
                   callsLeft, reentriesLeft, lastCall>>
    /\ UNCHANGED <<Axis, handlers, dispatch>>

\* Base end(), after contextEnding: this.unwind();
EndUnwind ==
    /\ Top.op = "end" /\ Top.pc = "ending" /\ Top.i > Len(Top.snap)
    /\ stack' = Below \o << [Top EXCEPT !.pc = "unwinding"],
                            UnwindFrame(Top.ctx) >>
    /\ UNCHANGED <<state, parent, children, observers, subs, log, gone,
                   callsLeft, reentriesLeft, lastCall>>
    /\ UNCHANGED <<Axis, handlers, dispatch>>

\* unwind(): child.end() for the next child of the copy.
UnwindStep ==
    /\ Top.op = "unwind" /\ Top.i <= Len(Top.kids)
    /\ InvokeEnd(Top.kids[Top.i], Below \o << [Top EXCEPT !.i = @ + 1] >>)
    /\ UNCHANGED <<parent, children, observers, subs, log, gone,
                   callsLeft, reentriesLeft, lastCall>>
    /\ UNCHANGED <<Axis, handlers, dispatch>>

\* unwind(): return this.
UnwindReturn ==
    /\ Top.op = "unwind" /\ Top.i > Len(Top.kids)
    /\ stack' = Below
    /\ UNCHANGED <<state, parent, children, observers, subs, log, gone,
                   callsLeft, reentriesLeft, lastCall>>
    /\ UNCHANGED <<Axis, handlers, dispatch>>

\* Base end(), after unwind(): _state = ContextState.Ended;
EndEnded ==
    /\ Top.op = "end" /\ Top.pc = "unwinding"
    /\ state' = [state EXCEPT ![Top.ctx] = Ended]
    /\ stack' = Below \o << [Top EXCEPT !.pc = "ended", !.i = 1] >>
    /\ UNCHANGED <<parent, children, observers, subs, log, gone,
                   callsLeft, reentriesLeft, lastCall>>
    /\ UNCHANGED <<Axis, handlers, dispatch>>

\* Base end(), after contextEnded: _observers = null; the call returns.
EndReturn ==
    /\ Top.op = "end" /\ Top.pc = "ended" /\ Top.i > Len(Top.snap)
    /\ observers' = [observers EXCEPT ![Top.ctx] = Null]
    /\ stack' = Below
    /\ UNCHANGED <<state, parent, children, subs, log, gone,
                   callsLeft, reentriesLeft, lastCall>>
    /\ UNCHANGED <<Axis, handlers, dispatch>>

Next ==
    \/ \E p \in Contexts : NewChild(p)
    \/ \E c \in Contexts, o \in 0 .. NumObs : Observe(c, o)
    \/ \E c \in Contexts, o \in Observers : Unsubscribe(c, o)
    \/ \E c \in Contexts : End(c)
    \/ \E c \in Contexts : Dispose(c)
    \/ \E c \in Contexts : Unwind(c)
    \/ \E c \in Contexts : UnwindToRootContext(c)
    \/ Notify
    \/ CallbackReturn
    \/ ChildSplice
    \/ ChildEndReturn
    \/ EndUnwind
    \/ UnwindStep
    \/ UnwindReturn
    \/ EndEnded
    \/ EndReturn

Spec == Init /\ [][Next]_vars

\* The same program, run for more calls.
SpecDeep == InitDeep /\ [][Next]_vars

----------------------------------------------------------------------------
\* Callback dispatch: handleCallback() and handleAxis().

\* TraversingAxis
TraversingAxis ==
    {"Self", "Root", "Child", "Sibling", "Ancestor", "Descendant",
     "DescendantReverse", "SelfOrChild", "SelfOrSibling", "SelfOrAncestor",
     "SelfOrDescendant", "SelfOrDescendantReverse", "SelfSiblingOrAncestor"}

\* The parents of n, nearest first.
RECURSIVE Ancestors(_)
Ancestors(n) ==
    IF parent[n] = 0 THEN <<>> ELSE <<parent[n]>> \o Ancestors(parent[n])

\* The children of the parent of n but n, in array order.
Siblings(n) == IF parent[n] = 0 THEN <<>> ELSE Without(children[parent[n]], n)

\* Level order from the contexts of queue: each one, then its children queued.
RECURSIVE LevelOrder(_)
LevelOrder(queue) ==
    IF queue = <<>> THEN <<>>
    ELSE <<Head(queue)>> \o LevelOrder(Tail(queue) \o children[Head(queue)])

\* The same with the children of each context queued last child first.
RECURSIVE LevelOrderLastFirst(_)
LevelOrderLastFirst(queue) ==
    IF queue = <<>> THEN <<>>
    ELSE <<Head(queue)>>
            \o LevelOrderLastFirst(Tail(queue) \o Reverse(children[Head(queue)]))

ReverseLevelOrder(n) == Reverse(LevelOrderLastFirst(<<n>>))

\* this.traverse(axis, visitor): the contexts the visitor is called with, in
\* order, when it never asks to stop.
traverse(n, axis) ==
    CASE axis = "Self"                    -> <<n>>
      [] axis = "Root"                    -> <<RootOf(n)>>
      [] axis = "Child"                   -> children[n]
      [] axis = "Sibling"                 -> Siblings(n)
      [] axis = "Ancestor"                -> Ancestors(n)
      [] axis = "Descendant"              -> Tail(LevelOrder(<<n>>))
      [] axis = "DescendantReverse"       -> Without(ReverseLevelOrder(n), n)
      [] axis = "SelfOrChild"             -> <<n>> \o children[n]
      [] axis = "SelfOrSibling"           -> <<n>> \o Siblings(n)
      [] axis = "SelfOrAncestor"          -> <<n>> \o Ancestors(n)
      [] axis = "SelfOrDescendant"        -> LevelOrder(<<n>>)
      [] axis = "SelfOrDescendantReverse" -> ReverseLevelOrder(n)
      [] axis = "SelfSiblingOrAncestor"   -> <<n>> \o Siblings(n) \o Ancestors(n)

\* this[Axis] of n among the pending tags, "none" when it has none.
AxisOf(n, tags) ==
    IF \E t \in tags : t[1] = n
    THEN (CHOOSE t \in tags : t[1] = n)[2]
    ELSE "none"

\* this[Axis] = axis
setAxis(n, axis, tags) == { t \in tags : t[1] # n } \cup {<<n, axis>>}

\* Mutant: the tag is left where it is.
keepAxis(n, tags) == tags

\* delete this[Axis]
deleteAxis(n, tags) == { t \in tags : t[1] # n }

\* Mutant: stop as soon as the callback is handled, greedy or not.
stopsWhenHandled(handled, greedy) == handled

\* handled && !greedy
stops(handled, greedy) == handled /\ ~greedy

\* The progress of one dispatch: the pending axis tags, the contexts whose
\* own handlers were consulted so far (each with the tags pending at that
\* moment) and the value the last call returned.
Started == [tags |-> Axis, seen |-> <<>>, ret |-> FALSE]

\* this.base(callback, greedy, composer): the own handlers of n are consulted.
base(n, st) ==
    [tags |-> st.tags,
     seen |-> Append(st.seen, [node |-> n, pending |-> st.tags]),
     ret  |-> n \in handlers]

RECURSIVE handleCallback(_, _, _)
RECURSIVE handleNoAxis(_, _, _)
RECURSIVE visit(_, _, _, _)

\* handleCallback() without a pending tag: the own handlers, then the parent
\* unless handled and not greedy.
handleNoAxis(n, greedy, st) ==
    LET own == base(n, st) IN
    IF stops(own.ret, greedy) THEN own
    ELSE IF parent[n] # 0
         THEN LET up == handleCallback(parent[n], greedy, own)
              IN  [up EXCEPT !.ret = own.ret \/ up.ret]
         ELSE own

\* Mutant: the tag Self dispatches as no tag does.
handleSelfChained(n, greedy, st) == handleNoAxis(n, greedy, st)

\* handleCallback() with the pending tag Self: the own handlers only.
handleSelf(n, greedy, st) == base(n, st)

\* handleAxis(axis, callback, greedy, composer) with a TraversingAxis.
handleAxis(n, axis, greedy, st) ==
    handleCallback(n, greedy, [st EXCEPT !.tags = setAxis(n, axis, @)])

\* Mutant: the visited context is dispatched to without the tag Self.
visitNoAxis(node, greedy, st) == handleCallback(node, greedy, st)

\* The visitor on a context other than this:
\* node.handleAxis(TraversingAxis.Self, callback, greedy, composer).
visitNode(node, greedy, st) == handleAxis(node, "Self", greedy, st)

\* The traversal calling the visitor on the contexts of nodes, until the
\* visitor returns true; st.ret is the variable handled of handleCallback().
visit(nodes, n, greedy, st) ==
    IF nodes = <<>> THEN st
    ELSE LET one == IF Head(nodes) = n THEN base(n, st)
                                       ELSE visitNode(Head(nodes), greedy, st)
             acc == [one EXCEPT !.ret = st.ret \/ one.ret]
         IN  IF stops(acc.ret, greedy) THEN acc
             ELSE visit(Tail(nodes), n, greedy, acc)

\* handleCallback(callback, greedy, composer)
handleCallback(n, greedy, st) ==
    LET axis == AxisOf(n, st.tags)
        cleared == [st EXCEPT !.tags = deleteAxis(n, @), !.ret = FALSE]
    IN  IF axis = "none" THEN handleNoAxis(n, greedy, st)
        ELSE IF axis = "Self" THEN handleSelf(n, greedy, cleared)
        ELSE visit(traverse(n, axis), n, greedy, cleared)

\* The increasing sequence of the elements of a set of numbers.
RECURSIVE Sorted(_)
Sorted(S) ==
    IF S = {} THEN <<>>
    ELSE LET m == CHOOSE x \in S : \A y \in S : x <= y
         IN  <<m>> \o Sorted(S \ {m})

\* A tree of Active contexts that newChild() calls have built from a root,
\* without observers, and the contexts whose own handlers handle the callback.
InitDispatch ==
    /\ \E k \in 1 .. MaxNodes : \E par \in [1 .. k -> 0 .. k] :
          /\ par[1] = 0
          /\ \A c \in 2 .. k : par[c] >= 1 /\ par[c] < c
          /\ parent = par
          /\ state = [c \in 1 .. k |-> Active]
          /\ children = [p \in 1 .. k |-> Sorted({ c \in 1 .. k : par[c] = p })]
          /\ observers = [c \in 1 .. k |-> Null]
          /\ handlers \in SUBSET (1 .. k)
    /\ subs      = EmptyBag
    /\ stack     = <<>>
    /\ log       = <<>>
    /\ gone      = {}
    /\ lastCall  = [op |-> "none", ctx |-> 0, obs |-> 0, raised |-> "none",
                    depth |-> 0]
    /\ callsLeft     = 0
    /\ reentriesLeft = 0
    /\ Axis      = {}
    /\ dispatch  = NoDispatch

Dispatched(op, n, axis, greedy, st) ==
    /\ Axis' = st.tags
    /\ dispatch' = [op |-> op, ctx |-> n, axis |-> axis, greedy |-> greedy,
                    consulted |-> st.seen, handled |-> st.ret,
                    raised |-> "none"]

\* handle(callback, greedy, composer)
Handle(n, greedy) ==
    /\ Dispatched("handle", n, "none", greedy,
                  handleCallback(n, greedy, Started))
    /\ UNCHANGED <<state, parent, children, observers, subs, stack, log, gone,
                   callsLeft, reentriesLeft, lastCall, handlers>>

\* handleAxis(axis, callback, greedy, composer); "other" is a value that is
\* not a TraversingAxis.
HandleAxis(n, axis, greedy) ==
    /\ IF axis \notin TraversingAxis
       THEN /\ dispatch' = [NoDispatch EXCEPT !.op = "handleAxis", !.ctx = n,
                               !.axis = axis, !.greedy = greedy,
                               !.raised = "TypeError"]
            /\ Axis' = Axis
       ELSE Dispatched("handleAxis", n, axis, greedy,
                       handleAxis(n, axis, greedy, Started))
    /\ UNCHANGED <<state, parent, children, observers, subs, stack, log, gone,
                   callsLeft, reentriesLeft, lastCall, handlers>>

NextDispatch ==
    \/ \E n \in Contexts, greedy \in BOOLEAN : Handle(n, greedy)
    \/ \E n \in Contexts, axis \in TraversingAxis \cup {"other"},
          greedy \in BOOLEAN : HandleAxis(n, axis, greedy)

SpecDispatch == InitDispatch /\ [][NextDispatch]_vars

----------------------------------------------------------------------------
\* Vocabulary of the properties.

\* A step that is an API call; lastCall' describes it.
IsCall == callsLeft' = callsLeft - 1

\* A step that calls end() or dispose() on c from the API.
CallsEnd(c) ==
    IsCall /\ lastCall'.op \in {"end", "dispose"} /\ lastCall'.ctx = c

\* A step in which unwind() calls end() on c.
UnwindCallsEnd(c) ==
    /\ Top.op = "unwind" /\ Top.i <= Len(Top.kids) /\ Top.kids[Top.i] = c
    /\ Len(stack') >= Len(stack)

\* A step in which a call of end() on c returns at once, without a frame.
EndReturnsAtOnce(c) ==
    \/ CallsEnd(c) /\ stack' = stack
    \/ UnwindCallsEnd(c) /\ Len(stack') = Len(stack)

\* A step in which the running end() of c (frame of kind op) returns.
EndFrameReturns(op, c) ==
    Top.op = op /\ Top.ctx = c /\ stack' = Below

\* A step in which the running unwind() of p returns.
UnwindReturns(p) ==
    Top.op = "unwind" /\ Top.ctx = p /\ Top.i > Len(Top.kids) /\ stack' = Below

\* A step in which the unwind() of r that unwindToRootContext() runs returns.
UnwindToRootReturns(r) ==
    /\ Top.op = "unwind" /\ Top.pc = "unwindToRootContext" /\ Top.ctx = r
    /\ Top.i > Len(Top.kids) /\ stack' = Below

\* The contexts whose own handlers the last dispatch consulted, in order.
Consulted == [j \in 1 .. Len(dispatch.consulted) |-> dispatch.consulted[j].node]

\* The contexts of s up to and including the first whose handlers handle the
\* callback, all of s when there is none.
RECURSIVE UntilHandled(_)
UntilHandled(s) ==
    IF s = <<>> THEN <<>>
    ELSE IF Head(s) \in handlers THEN <<Head(s)>>
    ELSE <<Head(s)>> \o UntilHandled(Tail(s))

\* What a dispatch over the contexts of s, each with its own handlers only,
\* consults: all of them when greedy, else up to the first that handles.
Along(s, greedy) == IF greedy THEN s ELSE UntilHandled(s)

\* Some context of s handles the callback.
SomeHandles(s) == \E c \in Range(s) : c \in handlers

\* What handle() on n, with no tag pending on n, would consult and return in
\* the present state.
AsNoAxis(n, greedy) == handleNoAxis(n, greedy, Started)

\* The contexts a progress record lists as consulted.
NodesOf(st) == [j \in 1 .. Len(st.seen) |-> st.seen[j].node]

\* d is a proper descendant of c.
RECURSIVE IsDescendant(_, _)
IsDescendant(d, c) ==
    /\ parent[d] # 0
    /\ (parent[d] = c \/ IsDescendant(parent[d], c))

\* The length of an observer array, 0 for a nullish one.
ObsLen(a) == IF a = Null THEN 0 ELSE Len(a)

\* The observers that were sent kind(c), in the order they were called.
RECURSIVE Notified(_, _, _)
Notified(l, kind, c) ==
    IF l = <<>> THEN <<>>
    ELSE IF Head(l).kind = kind /\ Head(l).ctx = c
         THEN <<Head(l).obs>> \o Notified(Tail(l), kind, c)
         ELSE Notified(Tail(l), kind, c)

\* In l, every kind1(c) sent to o comes before every kind2(c) sent to o.
Precedes(l, kind1, kind2) ==
    \A j \in 1 .. Len(l) : \A k \in 1 .. Len(l) :
        (/\ l[j].kind = kind1 /\ l[k].kind = kind2
         /\ l[j].ctx = l[k].ctx /\ l[j].obs = l[k].obs) => j < k

----------------------------------------------------------------------------
\* C1: the state of every context only ever moves Active -> Ending and
\* Ending -> Ended: no step moves it backward, from Active straight to Ended,
\* or out of Ended, whatever calls observers make from inside a notification.
C1_StateMonotonic ==
    [][\A c \in Contexts :
          \/ state'[c] = state[c]
          \/ state[c] = Active /\ state'[c] = Ending
          \/ state[c] = Ending /\ state'[c] = Ended]_vars

\* From inside a callback an observer called end() on a context that is
\* Ended, while the end() of another context is still in progress.
C1_Witness ==
    /\ lastCall.op \in {"end", "dispose"}
    /\ lastCall.depth > 0
    /\ state[lastCall.ctx] = Ended
    /\ \E c \in Contexts : state[c] = Ending

\* C2: once a call C.end() made on an Active child C has returned, C is absent
\* from the children of its parent and C is Ended.
C2_EndedChildRemoved ==
    [][\A c \in Contexts :
          /\ (EndFrameReturns("childEnd", c) /\ Top.was = Active)
                => /\ c \notin Range(children'[parent[c]])
                   /\ state'[c] = Ended
          /\ (EndReturnsAtOnce(c) /\ state[c] = Active) => FALSE]_vars

\* C3: a context that is Ended has only Ended descendants.  Stated for the
\* states between calls (no end() in progress), where every end() that was
\* started has run to its return.
C3_EndedSubtree ==
    stack = <<>> =>
        \A c \in Contexts : \A d \in Contexts :
            (state[c] = Ended /\ IsDescendant(d, c)) => state[d] = Ended

\* C4: a call of end() or dispose() on a context that is Ending or Ended
\* changes nothing and sends nothing (no notification in the log comes from a
\* call made on a context that was not Active), and when the end() of C
\* returns every subscription its snapshot held has received contextEnding(C)
\* once and contextEnded(C) once, contextEnding first.
C4_EndIdempotent ==
    [][/\ \A c \in Contexts :
            (state[c] # Active /\ (CallsEnd(c) \/ UnwindCallsEnd(c)))
                => /\ Len(stack') = Len(stack)
                   /\ UNCHANGED <<state, children, observers, log>>
       /\ \A k \in 1 .. Len(log') : log'[k].was = Active
       /\ \A c \in Contexts :
            EndFrameReturns("end", c)
                => /\ Notified(log, "contextEnding", c) = Top.snap
                   /\ Notified(log, "contextEnded", c) = Top.snap
       /\ Precedes(log', "contextEnding", "contextEnded")]_vars

\* C5: the function observe() returned never raises.
C5_UnsubscribeNeverRaises ==
    lastCall.op = "unsubscribe" => lastCall.raised = "none"

\* C6 as stated: once unsubscribe has returned and left observer O without a
\* subscription on C (O not subscribed again since), no notification is sent
\* to O from the observers of C.
C6_NoNotificationAfterUnsubscribe ==
    \A g \in gone : \A k \in 1 .. Len(log) :
        ~(k > g.at /\ log[k].obs = g.obs /\ log[k].src = g.ctx)

\* C6 amended: every notification sent to O from the observers of C after
\* that unsubscribe comes from a notifier whose snapshot was taken before the
\* unsubscribe; a notifier made afterwards sends O nothing.
C6_NoNotificationFromLaterSnapshot ==
    \A g \in gone : \A k \in 1 .. Len(log) :
        (k > g.at /\ log[k].obs = g.obs /\ log[k].src = g.ctx)
            => log[k].at < g.at

\* O unsubscribed during contextEnding(C) and was still sent contextEnded(C),
\* and a notifier made after the unsubscribe has sent notifications.
C6_Witness ==
    \E g \in gone : \E k \in 1 .. Len(log) : \E j \in 1 .. Len(log) :
        /\ k > g.at /\ log[k].obs = g.obs /\ log[k].src = g.ctx
        /\ log[k].kind = "contextEnded"
        /\ j > g.at /\ log[j].at >= g.at

\* C7: the base end() of an Active context C notifies contextEnding(C) in
\* state Ending, ends the children, notifies contextEnded(C) in state Ended
\* and clears the observers; both notifications go to exactly the snapshot
\* taken at the start, in its order; and a call of end() on an Active C runs
\* this sequence: when it returns C is Ended with no observers.
C7_EndSequence ==
    [][\A c \in Contexts :
          /\ (Notifying(Top) /\ Top.ctx = c /\ Top.pc = "ending")
                => state[c] = Ending
          /\ (Notifying(Top) /\ Top.ctx = c /\ Top.pc = "ended")
                => /\ state[c] = Ended
                   /\ \A d \in Range(children[c]) : state[d] = Ended
          /\ EndFrameReturns("end", c)
                => /\ Notified(log, "contextEnding", c) = Top.snap
                   /\ Notified(log, "contextEnded", c) = Top.snap
                   /\ Precedes(log, "contextEnding", "contextEnded")
                   /\ state'[c] = Ended
                   /\ ObsLen(observers'[c]) = 0
          /\ (EndFrameReturns("childEnd", c) /\ Top.was = Active)
                => state'[c] = Ended /\ ObsLen(observers'[c]) = 0
          /\ (EndReturnsAtOnce(c) /\ state[c] = Active) => FALSE]_vars

\* C8: childContextEnding(C) is sent while C is Active and among its parent's
\* children, childContextEnded(C) while C is Ended and no longer among them;
\* for each observer childContextEnding(C) comes before contextEnding(C),
\* contextEnded(C) before childContextEnded(C), childContextEnded(C) of a
\* child before contextEnded of the parent; and an Ended context keeps no
\* children once its end() has returned.
C8_ChildEndProtocol ==
    /\ \A c \in Contexts :
          /\ (Notifying(Top) /\ Top.ctx = c /\ Top.pc = "childEnding")
                => state[c] = Active /\ c \in Range(children[parent[c]])
          /\ (Notifying(Top) /\ Top.ctx = c /\ Top.pc = "childEnded")
                => state[c] = Ended /\ c \notin Range(children[parent[c]])
    /\ Precedes(log, "childContextEnding", "childContextEnded")
    /\ \A j \in 1 .. Len(log) : \A k \in 1 .. Len(log) :
          /\ (/\ log[j].kind = "childContextEnding"
              /\ log[k].kind \in {"contextEnding", "contextEnded"}
              /\ log[j].ctx = log[k].ctx) => j < k
          /\ (/\ log[j].kind \in {"contextEnding", "contextEnded"}
              /\ log[k].kind = "childContextEnded"
              /\ log[j].ctx = log[k].ctx) => j < k
          /\ (/\ log[j].kind = "childContextEnded"
              /\ log[k].kind = "contextEnded"
              /\ log[k].ctx = log[j].src) => j < k
    /\ stack = <<>> =>
          \A c \in Contexts : state[c] = Ended => children[c] = <<>>

\* C9: between calls (no end() in progress) the parent links and the children
\* arrays agree: an Active child occurs exactly once in its parent's children,
\* every element of a children array has that parent and is not Ended, and no
\* context is in the children of two contexts.
C9_TreeConsistent ==
    stack = <<>> =>
        /\ \A c \in Contexts :
              (parent[c] # 0 /\ state[c] = Active)
                  => CountOf(children[parent[c]], c) = 1
        /\ \A p \in Contexts : \A c \in Range(children[p]) :
              parent[c] = p /\ state[c] # Ended
        /\ \A p \in Contexts : \A q \in Contexts :
              p # q => Range(children[p]) \cap Range(children[q]) = {}

\* C10: newChild() and observe() on a context that is not Active raise and
\* change nothing, and no step gives a context that is Ending or Ended a new
\* child or a new observer.
C10_InactiveRefuses ==
    [][/\ (IsCall /\ lastCall'.op \in {"newChild", "observe"}
                 /\ state[lastCall'.ctx] # Active)
            => /\ lastCall'.raised = "Error"
               /\ UNCHANGED <<state, parent, children, observers, subs,
                              stack, log, gone>>
       /\ \A c \in Contexts :
            state[c] # Active
                => /\ Len(children'[c]) <= Len(children[c])
                   /\ ObsLen(observers'[c]) <= ObsLen(observers[c])]_vars

\* An observer called observe() on a context that is Ending and got the error.
C10_Witness ==
    /\ lastCall.op = "observe"
    /\ lastCall.raised = "Error"
    /\ lastCall.depth > 0
    /\ state[lastCall.ctx] = Ending

\* C11: when a call of unwind() on P returns, every context that was a child
\* of P when the call was made (the copy of the children unwind() iterates)
\* is Ended and is absent from the children of P.
C11_UnwindEndsChildren ==
    [][\A p \in Contexts :
          UnwindReturns(p)
              => \A k \in Range(Top.kids) :
                    /\ state'[k] = Ended
                    /\ k \notin Range(children'[p])]_vars

\* C12: unwindToRootContext() unwinds the root: when the unwind() it runs on
\* R returns, R is a root, every context that was a child of R when the call
\* was made is Ended and absent from the children of R, and none of its
\* descendants is still Active.
C12_UnwindToRootEndsTree ==
    [][\A r \in Contexts :
          UnwindToRootReturns(r)
              => /\ parent[r] = 0
                 /\ \A k \in Range(Top.kids) :
                       /\ state'[k] = Ended
                       /\ k \notin Range(children'[r])
                       /\ \A d \in Contexts :
                             IsDescendant(d, k) => state'[d] # Active]_vars

\* The elements of s are in increasing order: contexts are numbered in the
\* order newChild() made them.
InCreationOrder(s) == \A j \in 1 .. Len(s) : \A k \in 1 .. Len(s) :
                          j < k => s[j] < s[k]

\* C16: a call of newChild() on an Active P makes one new context: Active,
\* with parent P, no children and no observers, put last in the children of
\* P; the other elements of P's children and their order, the children of
\* every other context and the state, parent and observers of every existing
\* context are unchanged; and every children array is always in creation
\* order.
C16_NewChildAppends ==
    [][/\ (IsCall /\ lastCall'.op = "newChild" /\ lastCall'.raised = "none")
            => /\ state[lastCall'.ctx] = Active
               /\ Len(state') = Len(state) + 1
               /\ state'[Len(state')] = Active
               /\ parent'[Len(state')] = lastCall'.ctx
               /\ children'[Len(state')] = <<>>
               /\ observers'[Len(state')] = Null
               /\ children'[lastCall'.ctx] =
                      children[lastCall'.ctx] \o <<Len(state')>>
               /\ \A c \in Contexts :
                     /\ state'[c] = state[c]
                     /\ parent'[c] = parent[c]
                     /\ observers'[c] = observers[c]
                     /\ c # lastCall'.ctx => children'[c] = children[c]
       /\ \A c \in 1 .. Len(state') : InCreationOrder(children'[c])]_vars

\* An observer called newChild() from inside a notification on a context that
\* already had a child and an observer, and got the new context as the last
\* child.
C16_Witness ==
    /\ lastCall.op = "newChild"
    /\ lastCall.raised = "none"
    /\ lastCall.depth > 0
    /\ Len(children[lastCall.ctx]) > 1
    /\ observers[lastCall.ctx] # Null
    /\ children[lastCall.ctx][Len(children[lastCall.ctx])] = Len(state)

\* C17: a call of an unsubscribe function that has been called before leaves
\* every observer array as it is, whether or not the same observer is
\* subscribed again or more than once.
C17_UnsubscribeIdempotent ==
    [][(IsCall /\ lastCall'.op = "unsubscribe" /\ subs' = subs)
          => observers' = observers]_vars

\* C19: a subscription of an observer of P is sent childContextEnding(C) at
\* most once and childContextEnded(C) at most once: two notifications of the
\* same kind about the same child C to the same observer come from one pass
\* of one notifier (the observer is in its snapshot twice), never from two
\* runs of the end() of C.
C19_ChildEndNotifiedOnce ==
    \A j \in 1 .. Len(log) : \A k \in 1 .. Len(log) :
        (/\ log[j].kind \in {"childContextEnding", "childContextEnded"}
         /\ log[j].kind = log[k].kind
         /\ log[j].ctx = log[k].ctx
         /\ log[j].obs = log[k].obs) => log[j].at = log[k].at

\* C20: the only step that takes a context out of a children array is the
\* end() of that very context: a step either removes nothing from the
\* children of P, or it is the end() of a child C of P and leaves the children
\* of P as they were but for C, the others in their order.
C20_EndRemovesOnlyItself ==
    [][\A p \in Contexts :
          \/ Range(children[p]) \subseteq Range(children'[p])
          \/ /\ Top.op = "childEnd"
             /\ parent[Top.ctx] = p
             /\ children'[p] = Without(children[p], Top.ctx)]_vars

\* C13: handle() on N without a pending axis tag consults the own handlers of
\* N, then of its parent, and so on towards the root: every context from N
\* to the root when greedy, the contexts up to the first that handles when
\* not; and it returns true exactly when one of the consulted contexts
\* handles the callback.
C13_HandleChainsToParent ==
    dispatch.op = "handle" =>
        LET chain == <<dispatch.ctx>> \o Ancestors(dispatch.ctx) IN
        /\ Consulted = Along(chain, dispatch.greedy)
        /\ dispatch.handled = SomeHandles(Consulted)

\* A handle() that was not greedy started two levels below the root, found
\* no handler on its own context and stopped at the parent, short of the
\* root.
C13_Witness ==
    /\ dispatch.op = "handle"
    /\ ~dispatch.greedy
    /\ Len(Ancestors(dispatch.ctx)) > 1
    /\ Consulted = <<dispatch.ctx, parent[dispatch.ctx]>>
    /\ dispatch.handled

\* C14: handleAxis() on N with an axis other than Self consults exactly the
\* contexts the traversal from N along that axis visits, in that order, each
\* with its own handlers only: all of them when greedy, those up to the first
\* that handles when not; and it returns true exactly when one of them
\* handles.  For the root 1 with children 2 and 3 and 4 the child of 2,
\* Descendant from 1 consults 2, 3 and 4 and not 1, SelfOrDescendant consults
\* all four, and Self consults only the context it was called on.
C14_AxisDispatch ==
    (dispatch.op = "handleAxis" /\ dispatch.raised = "none") =>
        /\ dispatch.axis # "Self" =>
              /\ Consulted = Along(traverse(dispatch.ctx, dispatch.axis),
                                   dispatch.greedy)
              /\ dispatch.handled = SomeHandles(Consulted)
        /\ dispatch.axis = "Self" => Consulted = <<dispatch.ctx>>
        /\ (parent = <<0, 1, 1, 2>> /\ dispatch.ctx = 1 /\ dispatch.greedy) =>
              /\ dispatch.axis = "Descendant" => Range(Consulted) = {2, 3, 4}
              /\ dispatch.axis = "SelfOrDescendant" =>
                    Range(Consulted) = {1, 2, 3, 4}

\* In that tree a Descendant dispatch from the root that was not greedy went
\* past 2 and 3, which do not handle, and stopped at 4, which does.
C14_Witness ==
    /\ parent = <<0, 1, 1, 2>>
    /\ dispatch.op = "handleAxis"
    /\ dispatch.axis = "Descendant"
    /\ dispatch.ctx = 1
    /\ ~dispatch.greedy
    /\ handlers = {1, 4}
    /\ Consulted = <<2, 3, 4>>
    /\ dispatch.handled

\* C15 as stated: handleAxis() on N with the axis Self consults the same
\* contexts and returns the same result as handle() on N without a tag.
C15_SelfAsNoAxis ==
    (dispatch.op = "handleAxis" /\ dispatch.axis = "Self") =>
        /\ Consulted = NodesOf(AsNoAxis(dispatch.ctx, dispatch.greedy))
        /\ dispatch.handled = AsNoAxis(dispatch.ctx, dispatch.greedy).ret

\* C15 amended: handleAxis() on N with the axis Self consults the own
\* handlers of N and nothing else and returns whether they handle; it agrees
\* with handle() on N without a tag, in the contexts consulted and in the
\* result, exactly when N has no parent or N handles and the dispatch is not
\* greedy.
C15_SelfConsultsOnlyItself ==
    (dispatch.op = "handleAxis" /\ dispatch.axis = "Self") =>
        /\ Consulted = <<dispatch.ctx>>
        /\ dispatch.handled = (dispatch.ctx \in handlers)
        /\ (/\ Consulted = NodesOf(AsNoAxis(dispatch.ctx, dispatch.greedy))
            /\ dispatch.handled = AsNoAxis(dispatch.ctx, dispatch.greedy).ret)
              <=> \/ parent[dispatch.ctx] = 0
                  \/ dispatch.ctx \in handlers /\ ~dispatch.greedy

\* A Self dispatch on a context that does not handle the callback returned
\* false although its parent handles it: handle() without a tag would have
\* gone on to the parent and returned true.
C15_Witness ==
    /\ dispatch.op = "handleAxis"
    /\ dispatch.axis = "Self"
    /\ parent[dispatch.ctx] # 0
    /\ dispatch.ctx \notin handlers
    /\ parent[dispatch.ctx] \in handlers
    /\ ~dispatch.handled
    /\ AsNoAxis(dispatch.ctx, dispatch.greedy).ret

\* C18: the pending axis tag is one-shot.  Whenever a dispatch consults the
\* own handlers of a context no tag is pending, the tag handleAxis() set
\* having been cleared before; when handleAxis() has returned no context
\* holds a tag; and a handle() that follows a handleAxis() is the dispatch
\* without a tag, from the context towards the root.
C18_AxisOneShot ==
    [][/\ dispatch'.op = "handleAxis" =>
            /\ Axis' = {}
            /\ \A j \in 1 .. Len(dispatch'.consulted) :
                  dispatch'.consulted[j].pending = {}
       /\ (dispatch.op = "handleAxis" /\ dispatch'.op = "handle") =>
            /\ \A j \in 1 .. Len(dispatch'.consulted) :
                  /\ dispatch'.consulted[j].pending = {}
                  /\ dispatch'.consulted[j].node =
                        Along(<<dispatch'.ctx>> \o Ancestors(dispatch'.ctx),
                              dispatch'.greedy)[j]
            /\ Len(dispatch'.consulted) =
                  Len(Along(<<dispatch'.ctx>> \o Ancestors(dispatch'.ctx),
                            dispatch'.greedy))
            /\ Axis' = {}]_vars

\* handleAxis() with SelfOrDescendant has consulted four contexts, each of
\* the three below the start through the tag Self, and has returned leaving
\* no tag behind.
C18_Witness ==
    /\ dispatch.op = "handleAxis"
    /\ dispatch.axis = "SelfOrDescendant"
    /\ Len(dispatch.consulted) = 4
    /\ Axis = {}

====
